---- MODULE Spec2Model ----
(***************************************************************************)
(* The Bank contract of src/lib.rs (an ink! contract): one Bank storage    *)
(* record with an ordered ledger of accounts, and the messages setup, get, *)
(* close, open, deposit, withdraw, credit, debit and get_balance.  Every   *)
(* message runs to completion before the next one starts.                  *)
(***************************************************************************)
EXTENDS Integers, Sequences, FiniteSets, TLC

\* ------------------------------------------------------------------ bounds
\* The largest value of the u16 type of maximum_accounts, scaled down.
U16_MAX == 2
\* The largest value of the u128 type of balance and amount, scaled down.
U128_MAX == 2
\* The largest value of the u128 type in the scenario of deposits of 100 and
\* 50: scaled down to eight bits, which hold its amounts.
ScenarioU128Max == 255

\* the callers and account holders: AccountId values
AccountId == {"alice", "bob"}
U16 == 0..U16_MAX
U128 == 0..U128_MAX
\* asset_id values: 0 (the one default() sets) and one other
AssetIds == {0, 1}

\* --------------------------------------------------------------- the state
VARIABLES
    asset_id,          \* Bank.asset_id
    owner,             \* Bank.owner
    manager,           \* Bank.manager
    maximum_accounts,  \* Bank.maximum_accounts
    ledgers,           \* Bank.ledgers, a sequence of Ledger records
    status,            \* Bank.status: 0 = Open, 1 = Close
    call,              \* the last call: its name and env().caller()
    result,            \* what the last call returned: Ok(v) or Err(e)
    events,            \* the BankingEvents the last call emitted, in order
    transfers,         \* the Assets::Transfer runtime calls the last call made
    self_ledgers,      \* self.ledgers in memory when the last call returned
    deposit_sum,       \* per account: the sum of the deposits that make up
                       \* its entry, or NoSum once another operation changed it
    u128_max           \* u128::MAX, the same all through a behaviour

bank == <<asset_id, owner, manager, maximum_accounts, ledgers, status>>
vars == <<asset_id, owner, manager, maximum_accounts, ledgers, status,
          call, result, events, transfers, self_ledgers, deposit_sum,
          u128_max>>

\* ------------------------------------------------------------ result values
\* a call of the message `op` with env().caller() = caller
Call(op, caller) == [op |-> op, caller |-> caller]

Unit == "()"
Ok(v) == [tag |-> "Ok", val |-> v]
Err(e) == [tag |-> "Err", val |-> e]

\* BankTransactionStatus::EmitSuccess(s) / EmitError(e)
EmitSuccess(s) == [kind |-> "EmitSuccess", of |-> s]
EmitError(e) == [kind |-> "EmitError", of |-> e]

\* the event names the owner as its operator
BankingEvent_Owner(operator, st) == [operator |-> owner, status |-> st]

\* BankingEvent { operator, status }
BankingEvent(operator, st) == [operator |-> operator, status |-> st]

\* AssetsCall::Transfer { id, target, amount } and whether the runtime ran it
Transfer(id, target, amount, ok) ==
    [id |-> id, target |-> target, amount |-> amount, ok |-> ok]

\* Ledger { account, balance, status }
Ledger(account, balance, st) ==
    [account |-> account, balance |-> balance, status |-> st]

\* Bank.status: 0-Open, 1-Close
BankOpen == 0
BankClose == 1
\* Ledger.status: 0-Frozen, 1-Liquid
Frozen == 0
Liquid == 1

NoSum == -1
\* Option::None of checked_add
None == -1
NoSums == [a \in AccountId |-> NoSum]

\* ------------------------------------------------------------------ helpers
\* setup also lets the manager in
IsOwner_OrManager(caller) == caller = owner \/ caller = manager

\* caller != self.owner, negated
IsOwner(caller) == caller = owner

\* the manager-only messages also let the owner in
IsManager_OrOwner(caller) == caller = manager \/ caller = owner

\* caller != self.manager, negated
IsManager(caller) == caller = manager

\* the open/closed check never refuses
IsOpen_Always == TRUE

\* self.status != 0, negated
IsOpen == status = BankOpen

\* the scan stops at the first entry, whatever its account
FindLedger_First(ls, account) == IF Len(ls) = 0 THEN 0 ELSE 1

\* the scan never sets account_found
FindLedger_Miss(ls, account) == 0

\* for ledger in self.ledgers.iter_mut() { if ledger.account == account {..; break} }
\* the position of the first entry of the account, 0 when there is none
FindLedger(ls, account) ==
    LET hits == {i \in 1..Len(ls) : ls[i].account = account}
    IN  IF hits = {} THEN 0 ELSE CHOOSE i \in hits : \A j \in hits : i <= j

\* saturating_add in place of checked_add
CheckedAdd_Saturating(a, b) == IF a + b > U128_MAX THEN U128_MAX ELSE a + b

\* wrapping_add in place of checked_add
CheckedAdd_Wrapping(a, b) == (a + b) % (U128_MAX + 1)

\* u128::checked_add: None (-1) on overflow
CheckedAdd(a, b) == IF a + b > u128_max THEN None ELSE a + b

\* the whole balance is taken
Deduct_All(balance, amount) == 0

\* the balance is left as it was
Deduct_Nothing(balance, amount) == balance

\* ledger.balance -= amount
Deduct(balance, amount) == balance - amount

\* > in place of >=
IsMaxOut_Gt(ls, max) == (Len(ls) % (U16_MAX + 1)) > max

\* self.ledgers.len() as u16 >= self.maximum_accounts
IsMaxOut(ls, max) == (Len(ls) % (U16_MAX + 1)) >= max

\* the new entry starts Frozen
NewLedger_Frozen(account, amount) == Ledger(account, amount, Frozen)

\* the new entry starts with a zero balance
NewLedger_Zero(account, amount) == Ledger(account, 0, Liquid)

\* Ledger { account, balance: amount, status: 1 }
NewLedger(account, amount) == Ledger(account, amount, Liquid)

\* the new entry goes to the front
Push_Front(ls, l) == <<l>> \o ls

\* self.ledgers.push(new_ledger)
Push(ls, l) == Append(ls, l)

\* setup keeps the entries
EmptyLedgers_Keep == ledgers

\* self.ledgers = Vec::new()
EmptyLedgers == << >>

\* the failure of the runtime call is swallowed
TransferResult_Ignored(ok) == Ok(Unit)

\* call_runtime(..).map_err(|_| RuntimeError::CallRuntimeFailed)?
\* what withdraw returns once the runtime call came back
TransferResult(ok) == IF ok THEN Ok(Unit) ELSE Err("CallRuntimeFailed")

\* the storage is written whatever the message returns
Commit_Always(res, mem) == mem

\* A message that returns Err reverts: the storage keeps its value from
\* before the call; a message that returns Ok stores self.
Commit(res, mem) == IF res.tag = "Ok" THEN mem ELSE ledgers

\* ---------------------------------------------------------------- the calls
\* Bank::new / Bank::default
New(caller, a, mx, name) ==
    /\ asset_id = a
    /\ owner = caller
    /\ manager = caller
    /\ maximum_accounts = mx
    /\ ledgers = << >>
    /\ status = BankOpen
    /\ call = Call(name, caller)
    /\ result = Ok(Unit)
    /\ events = << >>
    /\ transfers = << >>
    /\ self_ledgers = << >>
    /\ deposit_sum = NoSums

Default(caller) == New(caller, 0, 0, "default")

Init ==
    /\ u128_max = U128_MAX
    /\ \E caller \in AccountId :
          \/ \E a \in AssetIds, mx \in U16 : New(caller, a, mx, "new")
          \/ Default(caller)

\* setup hands the bank over: the new manager becomes the owner
Setup_NewOwner(caller, a, m, mx) ==
    /\ call' = Call("setup", caller)
    /\ UNCHANGED u128_max
    /\ transfers' = << >>
    /\ result' = Ok(Unit)
    /\ IF ~IsOwner(caller)
       THEN /\ events' = <<BankingEvent(caller, EmitError("BadOrigin"))>>
            /\ self_ledgers' = ledgers
            /\ UNCHANGED <<asset_id, owner, manager, maximum_accounts,
                           ledgers, status, deposit_sum>>
       ELSE /\ asset_id' = a
            /\ owner' = m
            /\ manager' = m
            /\ maximum_accounts' = mx
            /\ ledgers' = EmptyLedgers
            /\ self_ledgers' = EmptyLedgers
            /\ status' = BankOpen
            /\ deposit_sum' = NoSums
            /\ events' = <<BankingEvent(caller, EmitSuccess("BankSetupSuccess"))>>

\* Bank::setup
Setup(caller, a, m, mx) ==
    /\ call' = Call("setup", caller)
    /\ UNCHANGED u128_max
    /\ transfers' = << >>
    /\ result' = Ok(Unit)
    /\ UNCHANGED owner
    /\ IF ~IsOwner(caller)
       THEN /\ events' = <<BankingEvent(caller, EmitError("BadOrigin"))>>
            /\ self_ledgers' = ledgers
            /\ UNCHANGED <<asset_id, manager, maximum_accounts, ledgers,
                           status, deposit_sum>>
       ELSE /\ asset_id' = a
            /\ manager' = m
            /\ maximum_accounts' = mx
            /\ ledgers' = EmptyLedgers
            /\ self_ledgers' = EmptyLedgers
            /\ status' = BankOpen
            /\ deposit_sum' = NoSums
            /\ events' = <<BankingEvent(caller, EmitSuccess("BankSetupSuccess"))>>

\* Bank::get
Get(caller) ==
    /\ call' = Call("get", caller)
    /\ UNCHANGED u128_max
    /\ result' = Ok(<<asset_id, owner, manager, maximum_accounts, status>>)
    /\ events' = << >>
    /\ transfers' = << >>
    /\ self_ledgers' = ledgers
    /\ UNCHANGED <<bank, deposit_sum>>

\* Bank::close (st = 1) and Bank::open (st = 0)
SetStatus(caller, name, st, success) ==
    /\ call' = Call(name, caller)
    /\ UNCHANGED u128_max
    /\ transfers' = << >>
    /\ result' = Ok(Unit)
    /\ self_ledgers' = ledgers
    /\ UNCHANGED <<asset_id, owner, manager, maximum_accounts, ledgers,
                   deposit_sum>>
    /\ IF ~IsManager(caller)
       THEN /\ events' = <<BankingEvent(caller, EmitError("BadOrigin"))>>
            /\ UNCHANGED status
       ELSE /\ status' = st
            /\ events' = <<BankingEvent(caller, EmitSuccess(success))>>

\* close writes the Open status
Close_AsOpen(caller) == SetStatus(caller, "close", BankOpen, "BankCloseSuccess")

Close(caller) == SetStatus(caller, "close", BankClose, "BankCloseSuccess")

Open(caller) == SetStatus(caller, "open", BankOpen, "BankOpenSuccess")

\* the refused call returns the error it emitted
Refuse_Err(caller, e) ==
    /\ events' = <<BankingEvent(caller, EmitError(e))>>
    /\ result' = Err(e)
    /\ transfers' = << >>
    /\ self_ledgers' = ledgers
    /\ UNCHANGED <<bank, deposit_sum>>

\* The event every refused call emits before it returns Ok(()), with the
\* storage and self left as they were.
Refuse(caller, e) ==
    /\ events' = <<BankingEvent(caller, EmitError(e))>>
    /\ result' = Ok(Unit)
    /\ transfers' = << >>
    /\ self_ledgers' = ledgers
    /\ UNCHANGED <<bank, deposit_sum>>

\* Bank::deposit
Deposit(caller, account, amount) ==
    /\ call' = Call("deposit", caller)
    /\ UNCHANGED u128_max
    /\ IF ~IsManager(caller) THEN Refuse(caller, "BadOrigin")
       ELSE IF ~IsOpen THEN Refuse(caller, "BankIsClose")
       ELSE LET i == FindLedger(ledgers, account) IN
            IF i # 0
            THEN LET sum == CheckedAdd(ledgers[i].balance, amount) IN
                 IF sum = None
                 THEN \* the ? operator returns Err before the assignment
                      /\ result' = Err("AccountBalanceOverflow")
                      /\ events' = << >>
                      /\ transfers' = << >>
                      /\ self_ledgers' = ledgers
                      /\ UNCHANGED <<bank, deposit_sum>>
                 ELSE LET mem == [ledgers EXCEPT ![i].balance = sum] IN
                      /\ result' = Ok(Unit)
                      /\ self_ledgers' = mem
                      /\ ledgers' = Commit(result', mem)
                      /\ events' = <<BankingEvent(caller,
                                        EmitSuccess("AccountDepositSuccess"))>>
                      /\ transfers' = << >>
                      /\ deposit_sum' =
                            [deposit_sum EXCEPT ![account] =
                                IF @ = NoSum THEN NoSum ELSE @ + amount]
                      /\ UNCHANGED <<asset_id, owner, manager,
                                     maximum_accounts, status>>
            ELSE IF IsMaxOut(ledgers, maximum_accounts)
                 THEN Refuse(caller, "BankAccountMaxOut")
                 ELSE LET mem == Push(ledgers, NewLedger(account, amount)) IN
                      /\ result' = Ok(Unit)
                      /\ self_ledgers' = mem
                      /\ ledgers' = Commit(result', mem)
                      /\ events' = <<BankingEvent(caller,
                                        EmitSuccess("AccountDepositSuccess"))>>
                      /\ transfers' = << >>
                      /\ deposit_sum' = [deposit_sum EXCEPT ![account] = amount]
                      /\ UNCHANGED <<asset_id, owner, manager,
                                     maximum_accounts, status>>

\* Bank::withdraw; ok is the outcome of the runtime call, which the
\* contract does not control
Withdraw(caller, account, amount) ==
    /\ call' = Call("withdraw", caller)
    /\ UNCHANGED u128_max
    /\ IF ~IsManager(caller) THEN Refuse(caller, "BadOrigin")
       ELSE IF ~IsOpen THEN Refuse(caller, "BankIsClose")
       ELSE LET i == FindLedger(ledgers, account) IN
            IF i = 0 THEN Refuse(caller, "AccountNotFound")
            ELSE IF ledgers[i].balance < amount
            THEN Refuse(caller, "AccountBalanceInsufficient")
            ELSE LET mem == [ledgers EXCEPT ![i].balance = Deduct(@, amount)] IN
                 \E ok \in BOOLEAN :
                    /\ self_ledgers' = mem
                    /\ transfers' = <<Transfer(asset_id, account, amount, ok)>>
                    /\ result' = TransferResult(ok)
                    /\ events' = IF ok
                                 THEN <<BankingEvent(caller,
                                     EmitSuccess("AccountWithdrawalSuccess"))>>
                                 ELSE << >>
                    /\ ledgers' = Commit(result', mem)
                    /\ deposit_sum' =
                          IF ok THEN [deposit_sum EXCEPT ![account] = NoSum]
                          ELSE deposit_sum
                    /\ UNCHANGED <<asset_id, owner, manager,
                                   maximum_accounts, status>>

\* Bank::credit
Credit(caller, account, amount) ==
    /\ call' = Call("credit", caller)
    /\ UNCHANGED u128_max
    /\ IF ~IsManager(caller) THEN Refuse(caller, "BadOrigin")
       ELSE IF ~IsOpen THEN Refuse(caller, "BankIsClose")
       ELSE LET i == FindLedger(ledgers, account) IN
            IF i = 0 THEN Refuse(caller, "AccountNotFound")
            ELSE IF ledgers[i].status # Liquid THEN Refuse(caller, "AccountFrozen")
            ELSE LET sum == CheckedAdd(ledgers[i].balance, amount) IN
                 IF sum = None THEN Refuse(caller, "AccountBalanceOverflow")
                 ELSE LET mem == [ledgers EXCEPT ![i].balance = sum] IN
                      /\ result' = Ok(Unit)
                      /\ self_ledgers' = mem
                      /\ ledgers' = Commit(result', mem)
                      /\ events' = <<BankingEvent(caller,
                                        EmitSuccess("AccountCreditSuccess"))>>
                      /\ transfers' = << >>
                      /\ deposit_sum' = [deposit_sum EXCEPT ![account] = NoSum]
                      /\ UNCHANGED <<asset_id, owner, manager,
                                     maximum_accounts, status>>

\* Bank::debit
Debit(caller, amount) ==
    /\ call' = Call("debit", caller)
    /\ UNCHANGED u128_max
    /\ IF ~IsOpen THEN Refuse(caller, "BankIsClose")
       ELSE LET i == FindLedger(ledgers, caller) IN
            IF i = 0 THEN Refuse(caller, "AccountNotFound")
            ELSE IF ledgers[i].status # Liquid THEN Refuse(caller, "AccountFrozen")
            ELSE IF ledgers[i].balance < amount
            THEN Refuse(caller, "AccountBalanceInsufficient")
            ELSE LET mem == [ledgers EXCEPT ![i].balance = Deduct(@, amount)] IN
                 /\ result' = Ok(Unit)
                 /\ self_ledgers' = mem
                 /\ ledgers' = Commit(result', mem)
                 /\ events' = <<BankingEvent(caller,
                                   EmitSuccess("AccountDebitSuccess"))>>
                 /\ transfers' = << >>
                 /\ deposit_sum' = [deposit_sum EXCEPT ![caller] = NoSum]
                 /\ UNCHANGED <<asset_id, owner, manager, maximum_accounts,
                                status>>

\* Bank::get_balance
GetBalance(caller, account) ==
    /\ call' = Call("get_balance", caller)
    /\ UNCHANGED u128_max
    /\ LET i == FindLedger(ledgers, account) IN
       result' = IF i # 0 THEN Ok(ledgers[i]) ELSE Err("AccountNotFound")
    /\ events' = << >>
    /\ transfers' = << >>
    /\ self_ledgers' = ledgers
    /\ UNCHANGED <<bank, deposit_sum>>

Next ==
    \/ \E caller \in AccountId, a \in AssetIds, m \in AccountId, mx \in U16 :
           Setup(caller, a, m, mx)
    \/ \E caller \in AccountId : Get(caller)
    \/ \E caller \in AccountId : Close(caller)
    \/ \E caller \in AccountId : Open(caller)
    \/ \E caller \in AccountId, account \in AccountId, amount \in U128 :
           Deposit(caller, account, amount)
    \/ \E caller \in AccountId, account \in AccountId, amount \in U128 :
           Withdraw(caller, account, amount)
    \/ \E caller \in AccountId, account \in AccountId, amount \in U128 :
           Credit(caller, account, amount)
    \/ \E caller \in AccountId, amount \in U128 : Debit(caller, amount)
    \/ \E caller \in AccountId, account \in AccountId :
           GetBalance(caller, account)

Spec == Init /\ [][Next]_vars

\* ------------------------------------------------------------ the scenario
\* Bank{owner = O, manager = M, max = 2, status = Open, ledgers = []}: as
\* new(a, 2) by O = M leaves it, or as setup(a, M, 2) by the owner O does.
InitScenario ==
    /\ u128_max = ScenarioU128Max
    /\ \E o \in AccountId, a \in AssetIds :
          \/ New(o, a, 2, "new")
          \/ \E m \in AccountId :
                /\ asset_id = a
                /\ owner = o
                /\ manager = m
                /\ maximum_accounts = 2
                /\ ledgers = EmptyLedgers
                /\ status = BankOpen
                /\ call = Call("setup", o)
                /\ result = Ok(Unit)
                /\ events = <<BankingEvent(o, EmitSuccess("BankSetupSuccess"))>>
                /\ transfers = << >>
                /\ self_ledgers = EmptyLedgers
                /\ deposit_sum = NoSums

\* deposit(M, A, 100), first call on the bank
ScenarioDeposit100 ==
    /\ call.op \in {"new", "setup"}
    /\ \E a \in AccountId : Deposit(manager, a, 100)

\* deposit(M, A, 50), after the deposit of 100
ScenarioDeposit50 ==
    /\ call.op = "deposit"
    /\ Len(ledgers) = 1
    /\ deposit_sum[ledgers[1].account] = 100
    /\ Deposit(manager, ledgers[1].account, 50)

\* withdraw(M, A, 200), after the deposit of 50
ScenarioWithdraw200 ==
    /\ call.op = "deposit"
    /\ Len(ledgers) = 1
    /\ deposit_sum[ledgers[1].account] = 150
    /\ Withdraw(manager, ledgers[1].account, 200)

\* credit(M, A, 10), after the withdraw
ScenarioCredit10 ==
    /\ call.op = "withdraw"
    /\ Len(ledgers) = 1
    /\ Credit(manager, ledgers[1].account, 10)

\* debit(160) by A, after the credit
ScenarioDebit160 ==
    /\ call.op = "credit"
    /\ Len(ledgers) = 1
    /\ Debit(ledgers[1].account, 160)

\* debit(1) by A, after the debit of 160 succeeded
ScenarioDebit1 ==
    /\ call.op = "debit"
    /\ Len(ledgers) = 1
    /\ events = <<BankingEvent(ledgers[1].account,
                               EmitSuccess("AccountDebitSuccess"))>>
    /\ Debit(ledgers[1].account, 1)

NextScenario ==
    \/ ScenarioDeposit100
    \/ ScenarioDeposit50
    \/ ScenarioWithdraw200
    \/ ScenarioCredit10
    \/ ScenarioDebit160
    \/ ScenarioDebit1

SpecScenario == InitScenario /\ [][NextScenario]_vars

\* ------------------------------------------------------ the claims' words
\* the account has an entry in the ledger sequence
InLedger(ls, account) == \E i \in 1..Len(ls) : ls[i].account = account

\* the balance of the account's entry
BalanceOf(ls, account) ==
    ls[CHOOSE i \in 1..Len(ls) : ls[i].account = account].balance

Emitted(operator, st) == <<[operator |-> operator, status |-> st]>>
Success(s) == [kind |-> "EmitSuccess", of |-> s]
Error(e) == [kind |-> "EmitError", of |-> e]
ReturnedOk == result = [tag |-> "Ok", val |-> "()"]

\* ---------------------------------------------------------------- claims
\* C1: in every reachable state the ledger sequence holds at most one entry
\* per account identity.
C1_OneEntryPerAccount ==
    \A i, j \in 1..Len(ledgers) :
        ledgers[i].account = ledgers[j].account => i = j

\* a successful deposit has just run on a ledger of two entries
C1_Witness ==
    /\ Len(ledgers) = 2
    /\ call.op = "deposit"
    /\ events = Emitted(call.caller, Success("AccountDepositSuccess"))

\* C2: in every reachable state the number of ledger entries is at most
\* maximum_accounts, also after setup lowered maximum_accounts, with the
\* size compared as a 16-bit value.
C2_SizeWithinMaximum == Len(ledgers) <= maximum_accounts

\* a deposit for a new account has just been refused on a full ledger
C2_Witness ==
    /\ Len(ledgers) = maximum_accounts
    /\ Len(ledgers) > 0
    /\ call.op = "deposit"
    /\ events = Emitted(call.caller, Error("BankAccountMaxOut"))

\* C3: a deposit by the manager on an Open bank for an account that is not
\* in the ledger emits BankAccountMaxOut, returns Ok and leaves the ledger
\* unchanged when the ledger size is >= maximum_accounts, and otherwise
\* appends exactly one entry {account, balance = amount, Liquid} at the end
\* and emits AccountDepositSuccess.
C3_DepositNewAccount ==
    [][(call'.op = "deposit" /\ call'.caller = manager /\ status = BankOpen)
       => \A a \in AccountId, m \in U128 :
          (~InLedger(ledgers, a) /\ Deposit(call'.caller, a, m))
          => IF Len(ledgers) >= maximum_accounts
             THEN /\ events' = Emitted(manager, Error("BankAccountMaxOut"))
                  /\ ReturnedOk'
                  /\ ledgers' = ledgers
             ELSE /\ ledgers' = Append(ledgers,
                        [account |-> a, balance |-> m, status |-> Liquid])
                  /\ events' = Emitted(manager, Success("AccountDepositSuccess"))
      ]_vars

\* a deposit by the manager has just succeeded and the ledger ends with a
\* Liquid entry holding the largest amount, made of deposits only
C3_Witness ==
    /\ Len(ledgers) = 2
    /\ ledgers[2].balance = U128_MAX
    /\ ledgers[2].status = Liquid
    /\ deposit_sum[ledgers[2].account] = U128_MAX
    /\ call.op = "deposit"
    /\ events = Emitted(manager, Success("AccountDepositSuccess"))

\* C4: the balance of an account that only deposits have touched is the sum
\* of the deposited amounts, and a deposit by the manager on an Open bank
\* whose addition would exceed the largest value of the balance type fails
\* with the hard error AccountBalanceOverflow and leaves the balance as it
\* was.
C4_DepositsAddUp ==
    /\ [](\A a \in AccountId :
            deposit_sum[a] # NoSum
            => InLedger(ledgers, a) /\ BalanceOf(ledgers, a) = deposit_sum[a])
    /\ [][(call'.op = "deposit" /\ call'.caller = manager /\ status = BankOpen)
          => \A a \in AccountId, m \in U128 :
            ( /\ InLedger(ledgers, a)
              /\ BalanceOf(ledgers, a) + m > U128_MAX
              /\ Deposit(call'.caller, a, m) )
            => /\ result' = [tag |-> "Err", val |-> "AccountBalanceOverflow"]
               /\ ledgers' = ledgers
               /\ self_ledgers' = ledgers
       ]_vars

\* a deposit has just failed with an overflow on an account whose balance,
\* the largest value, is the sum of its deposits
C4_Witness ==
    /\ call.op = "deposit"
    /\ result = [tag |-> "Err", val |-> "AccountBalanceOverflow"]
    /\ \E a \in AccountId :
          /\ deposit_sum[a] = U128_MAX
          /\ BalanceOf(ledgers, a) = U128_MAX

\* C5: setup called by a caller other than the owner leaves asset_id,
\* manager, maximum_accounts, ledgers and status unchanged, emits BadOrigin
\* and returns Ok.
C5_SetupByNonOwner ==
    [][(call'.op = "setup" /\ call'.caller # owner)
       => /\ UNCHANGED <<asset_id, manager, maximum_accounts, ledgers, status>>
          /\ events' = Emitted(call'.caller, Error("BadOrigin"))
          /\ ReturnedOk'
      ]_vars

\* the manager, who is not the owner, has just called setup on a closed
\* bank that holds an entry
C5_Witness ==
    /\ call.op = "setup"
    /\ call.caller # owner
    /\ call.caller = manager
    /\ status = BankClose
    /\ Len(ledgers) > 0
    /\ events = Emitted(call.caller, Error("BadOrigin"))

\* C6: setup called by the owner, from any prior state, sets asset_id,
\* manager and maximum_accounts to the arguments, resets ledgers to the
\* empty sequence, sets status to Open and emits BankSetupSuccess.
C6_SetupByOwner ==
    [][(call'.op = "setup" /\ call'.caller = owner)
       => \A a \in AssetIds, m \in AccountId, mx \in U16 :
          Setup(call'.caller, a, m, mx)
          => /\ asset_id' = a
             /\ manager' = m
             /\ maximum_accounts' = mx
             /\ ledgers' = << >>
             /\ status' = BankOpen
             /\ events' = Emitted(owner, Success("BankSetupSuccess"))
      ]_vars

\* the owner, who is no longer the manager, has just run setup
C6_Witness ==
    /\ call.op = "setup"
    /\ call.caller = owner
    /\ manager # owner
    /\ maximum_accounts = U16_MAX
    /\ ledgers = << >>
    /\ status = BankOpen
    /\ events = Emitted(owner, Success("BankSetupSuccess"))

\* C7: close, open, deposit, withdraw and credit called by a caller that is
\* not the current manager leave the whole Bank state unchanged, make no
\* asset transfer and emit BadOrigin, whether the bank is Open or Closed.
C7_NonManagerRefused ==
    [][( /\ call'.op \in {"close", "open", "deposit", "withdraw", "credit"}
         /\ call'.caller # manager )
       => /\ UNCHANGED bank
          /\ transfers' = << >>
          /\ events' = Emitted(call'.caller, Error("BadOrigin"))
      ]_vars

\* a caller that is not the manager has just called withdraw on a closed
\* bank where it holds a balance
C7_Witness ==
    /\ call.op = "withdraw"
    /\ call.caller # manager
    /\ status = BankClose
    /\ InLedger(ledgers, call.caller)
    /\ BalanceOf(ledgers, call.caller) > 0
    /\ events = Emitted(call.caller, Error("BadOrigin"))

\* C8: when the bank is Closed, a deposit, withdraw or credit by the
\* manager and a debit by any caller emit BankIsClose, return Ok, make no
\* asset transfer and leave the whole Bank state unchanged.
C8_ClosedRefuses ==
    [][( /\ status = BankClose
         /\ \/ ( /\ call'.op \in {"deposit", "withdraw", "credit"}
                 /\ call'.caller = manager )
            \/ call'.op = "debit" )
       => /\ events' = Emitted(call'.caller, Error("BankIsClose"))
          /\ ReturnedOk'
          /\ transfers' = << >>
          /\ UNCHANGED bank
      ]_vars

\* an account holder with a balance has just called debit on a closed bank
C8_Witness ==
    /\ call.op = "debit"
    /\ status = BankClose
    /\ InLedger(ledgers, call.caller)
    /\ BalanceOf(ledgers, call.caller) > 0
    /\ events = Emitted(call.caller, Error("BankIsClose"))

\* the deposit of amount m to account a would be accepted on an Open bank:
\* the account has an entry whose balance can take m, or the ledger has room
\* for a new entry
Admissible(a, m) ==
    IF InLedger(ledgers, a)
    THEN BalanceOf(ledgers, a) + m <= U128_MAX
    ELSE Len(ledgers) < maximum_accounts

\* C9: open() by the manager sets status to Open and close() by the manager
\* sets status to Closed, whatever the prior status, changing no other
\* field; a deposit by the manager right after close() by the manager is
\* refused with BankIsClose and leaves the ledger unchanged, and a deposit
\* by the manager right after a following open() by the manager is not
\* refused as closed and succeeds as it does on an Open bank.
C9_OpenClose ==
    /\ [][(call'.op = "open" /\ call'.caller = manager)
          => /\ status' = BankOpen
             /\ UNCHANGED <<asset_id, owner, manager, maximum_accounts, ledgers>>
       ]_vars
    /\ [][(call'.op = "close" /\ call'.caller = manager)
          => /\ status' = BankClose
             /\ UNCHANGED <<asset_id, owner, manager, maximum_accounts, ledgers>>
       ]_vars
    /\ [][( /\ call.op = "close"
            /\ call.caller = manager
            /\ call'.op = "deposit"
            /\ call'.caller = manager )
          => /\ events' = Emitted(manager, Error("BankIsClose"))
             /\ ledgers' = ledgers
       ]_vars
    /\ [][( /\ call.op = "open"
            /\ call.caller = manager
            /\ call'.op = "deposit"
            /\ call'.caller = manager )
          => \A a \in AccountId, m \in U128 :
            Deposit(call'.caller, a, m)
            => /\ events' # Emitted(manager, Error("BankIsClose"))
               /\ Admissible(a, m)
                  => /\ events' = Emitted(manager,
                                     Success("AccountDepositSuccess"))
                     /\ InLedger(ledgers', a)
                     /\ BalanceOf(ledgers', a) =
                           IF InLedger(ledgers, a)
                           THEN BalanceOf(ledgers, a) + m
                           ELSE m
       ]_vars

\* the manager's deposit has just been refused on the bank it had closed
\* after taking a first deposit
C9_Witness ==
    /\ call.op = "deposit"
    /\ call.caller = manager
    /\ status = BankClose
    /\ Len(ledgers) > 0
    /\ events = Emitted(manager, Error("BankIsClose"))

\* C10: withdraw by the manager on an Open bank emits AccountNotFound for an
\* account not in the ledger and AccountBalanceInsufficient for a balance
\* less than amount, in both cases with every field unchanged and no asset
\* transfer; otherwise it decreases the account's balance by exactly amount,
\* makes exactly one transfer (asset_id, account, amount), and on transfer
\* success emits AccountWithdrawalSuccess.
C10_Withdraw ==
    [][(call'.op = "withdraw" /\ call'.caller = manager /\ status = BankOpen)
       => \A a \in AccountId, m \in U128 :
          Withdraw(call'.caller, a, m)
          => IF ~InLedger(ledgers, a)
             THEN /\ events' = Emitted(manager, Error("AccountNotFound"))
                  /\ UNCHANGED bank
                  /\ transfers' = << >>
             ELSE IF BalanceOf(ledgers, a) < m
             THEN /\ events' = Emitted(manager,
                                  Error("AccountBalanceInsufficient"))
                  /\ UNCHANGED bank
                  /\ transfers' = << >>
             ELSE /\ Len(transfers') = 1
                  /\ transfers'[1].id = asset_id
                  /\ transfers'[1].target = a
                  /\ transfers'[1].amount = m
                  /\ BalanceOf(self_ledgers', a) = BalanceOf(ledgers, a) - m
                  /\ transfers'[1].ok
                     => /\ BalanceOf(ledgers', a) = BalanceOf(ledgers, a) - m
                        /\ events' = Emitted(manager,
                                        Success("AccountWithdrawalSuccess"))
                        /\ ReturnedOk'
      ]_vars

\* a withdrawal of a non-zero amount has just succeeded and left a balance
C10_Witness ==
    /\ call.op = "withdraw"
    /\ events = Emitted(manager, Success("AccountWithdrawalSuccess"))
    /\ Len(transfers) = 1
    /\ transfers[1].ok
    /\ transfers[1].amount > 0
    /\ BalanceOf(ledgers, transfers[1].target) > 0

\* C11: in withdraw the balance is decremented before the asset transfer is
\* made; when the transfer fails the call fails with CallRuntimeFailed,
\* emits no event, and self.ledgers still holds the decremented balance
\* when withdraw returns: withdraw restores nothing.
C11_WithdrawTransferFails ==
    [][(call'.op = "withdraw" /\ transfers' # << >>)
       => LET t == transfers'[1] IN
          /\ InLedger(ledgers, t.target)
          /\ BalanceOf(self_ledgers', t.target) =
                BalanceOf(ledgers, t.target) - t.amount
          /\ ~t.ok => /\ result' = [tag |-> "Err", val |-> "CallRuntimeFailed"]
                      /\ events' = << >>
      ]_vars

\* a withdrawal of a non-zero amount has just failed in the transfer, with
\* the decrement still in self.ledgers
C11_Witness ==
    /\ call.op = "withdraw"
    /\ Len(transfers) = 1
    /\ ~transfers[1].ok
    /\ transfers[1].amount > 0
    /\ result = [tag |-> "Err", val |-> "CallRuntimeFailed"]
    /\ BalanceOf(self_ledgers, transfers[1].target) + transfers[1].amount
          = BalanceOf(ledgers, transfers[1].target)

SoftErrors ==
    {"BadOrigin", "BankIsClose", "BankAccountMaxOut", "AccountNotFound",
     "AccountBalanceInsufficient", "AccountFrozen", "AccountBalanceOverflow"}

\* C13: every call that ends in a soft error (an EmitError event of
\* BadOrigin, BankIsClose, BankAccountMaxOut, AccountNotFound,
\* AccountBalanceInsufficient, AccountFrozen or AccountBalanceOverflow)
\* returns Ok and leaves the whole Bank state unchanged, in storage and in
\* self, the checks coming before any mutation.
C13_SoftErrorKeepsState ==
    [][(\E i \in 1..Len(events') :
            /\ events'[i].status.kind = "EmitError"
            /\ events'[i].status.of \in SoftErrors)
       => /\ ReturnedOk'
          /\ UNCHANGED bank
          /\ self_ledgers' = ledgers
      ]_vars

\* the manager's credit has just been refused for overflow on an open bank
C13_Witness ==
    /\ call.op = "credit"
    /\ status = BankOpen
    /\ events = Emitted(manager, Error("AccountBalanceOverflow"))
    /\ ReturnedOk

Mutating == {"setup", "close", "open", "deposit", "withdraw", "credit", "debit"}

\* C14 as stated: every operation that ends in a success or a soft error
\* emits exactly one event {operator = the caller, status}, and a call that
\* ends in a hard error emits none.
C14_EveryOperationEmits ==
    [][IF result'.tag = "Ok"
       THEN Len(events') = 1 /\ events'[1].operator = call'.caller
       ELSE events' = << >>
      ]_vars

\* C14, amended: every call of setup, close, open, deposit, withdraw, credit
\* or debit that returns Ok emits exactly one event {operator = the caller,
\* status}, a success or a soft error; get and get_balance emit no event,
\* and a call that ends in a hard error emits none.
C14_OneEventPerMutatingCall ==
    [][IF call'.op \in Mutating /\ result'.tag = "Ok"
       THEN /\ Len(events') = 1
            /\ events'[1].operator = call'.caller
            /\ events'[1].status.kind \in {"EmitSuccess", "EmitError"}
       ELSE events' = << >>
      ]_vars

\* an account holder that is neither owner nor manager has just debited
\* its account, and the one event names it
C14_Witness ==
    /\ call.op = "debit"
    /\ call.caller # manager
    /\ call.caller # owner
    /\ events = Emitted(call.caller, Success("AccountDebitSuccess"))

\* C15: credit by the manager on an Open bank never creates a ledger entry:
\* for an account not in the ledger it emits AccountNotFound; for a found
\* Liquid account it adds amount to the balance and emits
\* AccountCreditSuccess, except that an addition beyond the largest balance
\* value emits the soft error AccountBalanceOverflow, returns Ok and leaves
\* the balance unchanged.
C15_Credit ==
    [][(call'.op = "credit" /\ call'.caller = manager /\ status = BankOpen)
       => /\ Len(ledgers') = Len(ledgers)
          /\ \A a \in AccountId, m \in U128 :
             Credit(call'.caller, a, m)
             => IF ~InLedger(ledgers, a)
                THEN /\ events' = Emitted(manager, Error("AccountNotFound"))
                     /\ ledgers' = ledgers
                ELSE IF BalanceOf(ledgers, a) + m > U128_MAX
                THEN /\ events' = Emitted(manager,
                                     Error("AccountBalanceOverflow"))
                     /\ ReturnedOk'
                     /\ ledgers' = ledgers
                ELSE /\ BalanceOf(ledgers', a) = BalanceOf(ledgers, a) + m
                     /\ \A b \in AccountId \ {a} :
                           InLedger(ledgers, b)
                           => BalanceOf(ledgers', b) = BalanceOf(ledgers, b)
                     /\ events' = Emitted(manager,
                                     Success("AccountCreditSuccess"))
      ]_vars

\* a credit has just brought an account to the largest balance value
C15_Witness ==
    /\ call.op = "credit"
    /\ events = Emitted(manager, Success("AccountCreditSuccess"))
    /\ \E a \in AccountId :
          /\ InLedger(ledgers, a)
          /\ BalanceOf(ledgers, a) = U128_MAX
          /\ deposit_sum[a] = NoSum

\* C16: debit(amount) needs no role and acts only on the entry of the
\* caller: on an Open bank it emits AccountNotFound when the caller has no
\* entry, AccountBalanceInsufficient when the caller's balance is less than
\* amount, and otherwise decreases the caller's balance by exactly amount
\* and emits AccountDebitSuccess; the entries of all other accounts and the
\* bank fields are unchanged in every case.
C16_Debit ==
    [][(call'.op = "debit" /\ status = BankOpen)
       => LET c == call'.caller IN
          /\ UNCHANGED <<asset_id, owner, manager, maximum_accounts, status>>
          /\ Len(ledgers') = Len(ledgers)
          /\ \A i \in 1..Len(ledgers) :
                ledgers[i].account # c => ledgers'[i] = ledgers[i]
          /\ \A m \in U128 :
             Debit(c, m)
             => IF ~InLedger(ledgers, c)
                THEN /\ events' = Emitted(c, Error("AccountNotFound"))
                     /\ ledgers' = ledgers
                ELSE IF BalanceOf(ledgers, c) < m
                THEN /\ events' = Emitted(c,
                                     Error("AccountBalanceInsufficient"))
                     /\ ledgers' = ledgers
                ELSE /\ BalanceOf(ledgers', c) = BalanceOf(ledgers, c) - m
                     /\ events' = Emitted(c, Success("AccountDebitSuccess"))
      ]_vars

\* a holder that is neither owner nor manager has just debited part of its
\* balance, next to another account's entry
C16_Witness ==
    /\ call.op = "debit"
    /\ call.caller # manager
    /\ call.caller # owner
    /\ Len(ledgers) = 2
    /\ BalanceOf(ledgers, call.caller) = 1
    /\ events = Emitted(call.caller, Success("AccountDebitSuccess"))

\* C17: get_balance(A) fails with the hard error AccountNotFound for every
\* account A not in the ledger and returns the ledger record of A when A is
\* in it; it needs no role, works on an Open and on a Closed bank, and
\* never changes the Bank state.
C17_GetBalance ==
    [][call'.op = "get_balance"
       => /\ UNCHANGED bank
          /\ \A a \in AccountId :
             GetBalance(call'.caller, a)
             => IF InLedger(ledgers, a)
                THEN /\ result'.tag = "Ok"
                     /\ result'.val.account = a
                     /\ result'.val.balance = BalanceOf(ledgers, a)
                     /\ \E i \in 1..Len(ledgers) : result'.val = ledgers[i]
                ELSE result' = [tag |-> "Err", val |-> "AccountNotFound"]
      ]_vars

\* a caller that is neither owner nor manager has just read, on a closed
\* bank, the record of the second entry of the ledger
C17_Witness ==
    /\ call.op = "get_balance"
    /\ call.caller # manager
    /\ call.caller # owner
    /\ status = BankClose
    /\ Len(ledgers) = 2
    /\ result = [tag |-> "Ok", val |-> ledgers[2]]

\* the ledger holds the one entry {a, balance, Liquid}
OnlyEntry(ls, a, balance) ==
    ls = <<[account |-> a, balance |-> balance, status |-> Liquid]>>

\* C18: from Bank{owner = O, manager = M, max = 2, Open, no entries}, the
\* calls deposit(M, A, 100); deposit(M, A, 50); withdraw(M, A, 200);
\* credit(M, A, 10); debit(160) by A; debit(1) by A yield in order:
\* ledgers = [{A, 100, Liquid}] with AccountDepositSuccess; balance 150; the
\* soft error AccountBalanceInsufficient with the balance still 150; balance
\* 160; balance 0 with AccountDebitSuccess; the soft error
\* AccountBalanceInsufficient.
C18_Scenario ==
    [][/\ (call.op \in {"new", "setup"} /\ call'.op = "deposit")
          => /\ \E a \in AccountId : OnlyEntry(ledgers', a, 100)
             /\ events' = Emitted(manager, Success("AccountDepositSuccess"))
       /\ (call.op = "deposit" /\ call'.op = "deposit")
          => /\ OnlyEntry(ledgers, ledgers'[1].account, 100)
             /\ OnlyEntry(ledgers', ledgers'[1].account, 150)
       /\ call'.op = "withdraw"
          => /\ events' = Emitted(manager, Error("AccountBalanceInsufficient"))
             /\ ReturnedOk'
             /\ transfers' = << >>
             /\ OnlyEntry(ledgers', ledgers'[1].account, 150)
             /\ ledgers' = ledgers
       /\ call'.op = "credit"
          => /\ OnlyEntry(ledgers', ledgers'[1].account, 160)
             /\ ledgers'[1].account = ledgers[1].account
       /\ (call.op = "credit" /\ call'.op = "debit")
          => /\ OnlyEntry(ledgers', call'.caller, 0)
             /\ events' = Emitted(call'.caller, Success("AccountDebitSuccess"))
       /\ (call.op = "debit" /\ call'.op = "debit")
          => /\ events' = Emitted(call'.caller,
                              Error("AccountBalanceInsufficient"))
             /\ ReturnedOk'
             /\ OnlyEntry(ledgers', call'.caller, 0)
      ]_vars

\* the last call of the scenario, the debit of 1 by A, who is neither owner
\* nor manager, has just been refused on the emptied account
C18_Witness ==
    /\ u128_max = ScenarioU128Max
    /\ maximum_accounts = 2
    /\ call.op = "debit"
    /\ call.caller # owner
    /\ call.caller # manager
    /\ OnlyEntry(ledgers, call.caller, 0)
    /\ events = Emitted(call.caller, Error("AccountBalanceInsufficient"))

\* C19: no operation ever sets an account to Frozen: in every reachable
\* state every ledger entry is Liquid, and no call has emitted
\* AccountFrozen.
C19_NeverFrozen ==
    /\ \A i \in 1..Len(ledgers) : ledgers[i].status = Liquid
    /\ \A i \in 1..Len(self_ledgers) : self_ledgers[i].status = Liquid
    /\ \A i \in 1..Len(events) :
          events[i].status # [kind |-> "EmitError", of |-> "AccountFrozen"]

\* a credit has just succeeded on a ledger of two entries
C19_Witness ==
    /\ call.op = "credit"
    /\ Len(ledgers) = 2
    /\ events = Emitted(manager, Success("AccountCreditSuccess"))

\* C20: a ledger entry is created only by a successful deposit for an
\* account not yet in the ledger, and is never removed alone: every step
\* other than a setup by the owner keeps each entry's account and position,
\* and only a setup by the owner removes entries, all of them at once.
C20_EntryLifecycle ==
    [][/\ Len(ledgers') > Len(ledgers)
          => /\ call'.op = "deposit"
             /\ events' = Emitted(manager, Success("AccountDepositSuccess"))
             /\ Len(ledgers') = Len(ledgers) + 1
             /\ ~InLedger(ledgers, ledgers'[Len(ledgers')].account)
       /\ ~(call'.op = "setup" /\ call'.caller = owner)
          => /\ Len(ledgers') >= Len(ledgers)
             /\ \A i \in 1..Len(ledgers) :
                   ledgers'[i].account = ledgers[i].account
       /\ Len(ledgers') < Len(ledgers)
          => /\ call'.op = "setup"
             /\ call'.caller = owner
             /\ ledgers' = << >>
      ]_vars

\* a successful deposit has just run on a ledger whose second entry is made
\* of deposits only and whose first entry holds a balance
C20_Witness ==
    /\ call.op = "deposit"
    /\ Len(ledgers) = 2
    /\ ledgers[1].balance > 0
    /\ deposit_sum[ledgers[2].account] = ledgers[2].balance
    /\ events = Emitted(manager, Success("AccountDepositSuccess"))

\* the configuration setup writes
Configuration == <<asset_id, manager, maximum_accounts>>

\* C21: the bank a constructor returns has owner = manager = the
\* constructing caller, no entries and the Open status, and default gives
\* asset_id 0 and maximum_accounts 0; no later call changes owner, a setup
\* by the owner included, and only a setup by the owner changes manager,
\* asset_id or maximum_accounts.
C21_OwnerFixed ==
    [][/\ call.op \in {"new", "default"}
          => /\ owner = call.caller
             /\ manager = call.caller
             /\ ledgers = << >>
             /\ status = BankOpen
             /\ call.op = "default" => asset_id = 0 /\ maximum_accounts = 0
       /\ owner' = owner
       /\ call'.op \notin {"new", "default"}
       /\ Configuration' # Configuration
          => /\ call'.op = "setup"
             /\ call'.caller = owner
             /\ events' = Emitted(owner, Success("BankSetupSuccess"))
      ]_vars

\* the owner has just set the bank up with a manager other than the owner
\* and a maximum above 0, and is still the owner
C21_Witness ==
    /\ call.op = "setup"
    /\ call.caller = owner
    /\ manager # owner
    /\ maximum_accounts > 0
    /\ events = Emitted(owner, Success("BankSetupSuccess"))

\* C22: across any single call, the balance of an account that has an entry
\* goes down only in a withdraw for that account by the current manager or
\* in a debit called by the account itself, goes up only in a deposit or a
\* credit for that account by the current manager, and the entry goes away
\* only in a setup by the owner; no other caller or operation changes it.
C22_BalanceAuthority ==
    [][ledgers' # ledgers => \A a \in AccountId :
          InLedger(ledgers, a) =>
             /\ ~InLedger(ledgers', a)
                => /\ call'.op = "setup"
                   /\ call'.caller = owner
             /\ (InLedger(ledgers', a)
                   /\ BalanceOf(ledgers', a) < BalanceOf(ledgers, a))
                => \/ /\ call'.op = "withdraw"
                      /\ call'.caller = manager
                      /\ \E m \in U128 : Withdraw(manager, a, m)
                   \/ /\ call'.op = "debit"
                      /\ call'.caller = a
                      /\ \E m \in U128 : Debit(a, m)
             /\ (InLedger(ledgers', a)
                   /\ BalanceOf(ledgers', a) > BalanceOf(ledgers, a))
                => /\ call'.op \in {"deposit", "credit"}
                   /\ call'.caller = manager
                   /\ \/ \E m \in U128 : Deposit(manager, a, m)
                      \/ \E m \in U128 : Credit(manager, a, m)
      ]_vars

\* an account that is neither the owner nor the manager has just debited
\* its own entry to 0 while the other account's entry holds a balance
C22_Witness ==
    /\ call.op = "debit"
    /\ call.caller # owner
    /\ call.caller # manager
    /\ events = Emitted(call.caller, Success("AccountDebitSuccess"))
    /\ Len(ledgers) = 2
    /\ BalanceOf(ledgers, call.caller) = 0
    /\ \E a \in AccountId \ {call.caller} : BalanceOf(ledgers, a) > 0

====
